---- MODULE Spec2Model ----
(***************************************************************************)
(* Single-layer perceptron (single_layer_perceptron.rs): construction with *)
(* random weights, feedforward, the online training loop (per-epoch        *)
(* shuffle, one delta-rule update per sample) and the accuracy test.       *)
(*                                                                         *)
(* f64 values are modelled as fixed-point decimals: the integer v stands   *)
(* for the real v / Scale.  Addition and subtraction are exact, a product  *)
(* is rounded to the nearest multiple of 1 / Scale, NaN and infinity are   *)
(* kept apart from the numbers.                                            *)
(***************************************************************************)
EXTENDS Integers, Sequences, FiniteSets, Bags, TLC

VARIABLES
    weights,        \* Perceptron.weights
    learning_rate,  \* Perceptron.learning_rate
    activation_fn,  \* Perceptron.activation_fn
    pc,             \* "idle": between calls; "train": inside train;
                    \* "returned": train has returned; "tested": test has
                    \* returned; "panicked": a call panicked
    samples,        \* the caller's collection borrowed by train as `inputs`
    epochs,         \* train's `epochs` argument
    epoch,          \* number of iterations of `for _ in 0..epochs` started
    iter,           \* `for input in &shuffled_inputs`: the samples not yet visited
    accuracy,       \* what test returned
    test_inputs,    \* test's `inputs` argument
    test_outputs,   \* test's `outputs` argument
    input_size,     \* history: the input_size handed to Perceptron::new
    samples0,       \* history: the caller's collection as it was handed to train
    w0,             \* history: the weights when train was entered
    updates,        \* history: update_weights calls made by the current train call
    visited,        \* history: bag of the samples updated on in the current pass
    work            \* history: inner-loop iterations requested of train so far

vars == <<weights, learning_rate, activation_fn, pc, samples, epochs, epoch, iter,
          accuracy, test_inputs, test_outputs, input_size, samples0, w0, updates,
          visited, work>>

----------------------------------------------------------------------------
(* Bounds of the model.                                                    *)

\* Scale = Half * Half units per 1.0 (six decimal places).
Half == 1000
\* Largest input_size handed to Perceptron::new.
MaxInputSize == 2
\* Largest number of samples in a collection handed to train or test.
MaxSamples == 2
\* Largest number of inner-loop iterations (epochs times samples) requested
\* of train over a run, and largest epochs of one call.
MaxWork == 4

----------------------------------------------------------------------------
(* f64 arithmetic.                                                         *)

Scale == Half * Half

Abs(x) == IF x < 0 THEN -x ELSE x

Min(a, b) == IF a <= b THEN a ELSE b

\* a * b for magnitudes, rounded to nearest, computed on the halves of the
\* operands so that no intermediate product leaves the 32-bit integers.
MulMag(a, b) ==
    LET a1 == a \div Half
        a0 == a % Half
        b1 == b \div Half
        b0 == b % Half
        cross == a1 * b0 + a0 * b1
    IN  a1 * b1 + (cross \div Half)
          + (((cross % Half) * Half + a0 * b0 + (Scale \div 2)) \div Scale)

\* f64 `*`.
Mul(a, b) ==
    IF (a < 0) = (b < 0) THEN MulMag(Abs(a), Abs(b)) ELSE -MulMag(Abs(a), Abs(b))

\* `correct_predictions as f64 / inputs.len() as f64`.
NoResult == [kind |-> "none", val |-> 0]
Num(v) == [kind |-> "num", val |-> v]
AsF64Div(c, n) ==
    IF n = 0
    THEN IF c = 0 THEN [kind |-> "nan", val |-> 0] ELSE [kind |-> "inf", val |-> 0]
    ELSE Num((c * Scale + (n \div 2)) \div n)

\* The literal 0.0001 of test.
Tolerance == Scale \div 10000

\* The literal 0.1 of the repository's test.
Tenth == Scale \div 10

----------------------------------------------------------------------------
(* Perceptron.                                                             *)

\* ActivationFunction::activate; None is the identity.
Activate(fn, x) == CASE fn = "None" -> x

\* rng.gen_range(low..high): a half-open range, low included, high excluded.
\* The draws are taken from a grid that holds both ends of the range.
\* Variant: low..=high.
Grid == {-Scale, 0, Scale - 1, Scale}
GenRangeInclusive(low, high) == {x \in Grid : low <= x /\ x <= high}
GenRange(low, high) == {x \in Grid : low <= x /\ x < high}

\* Perceptron::new: the perceptrons it can return.
New(size, lr, fn) ==
    {[weights |-> w, learning_rate |-> lr, activation_fn |-> fn] :
        w \in [1..size -> GenRange(-Scale, Scale)]}

\* inputs.iter().zip(&self.weights).map(|(&i, &w)| i * w).sum() over the
\* first k pairs.
RECURSIVE ZipDot(_, _, _)
ZipDot(inputs, w, k) ==
    IF k = 0 THEN 0 ELSE ZipDot(inputs, w, k - 1) + Mul(inputs[k], w[k])

Feedforward(w, fn, inputs) ==
    Activate(fn, ZipDot(inputs, w, Min(Len(inputs), Len(w))))

\* update_weights: zip stops at the shorter of weights and inputs.
\* Variants: the update lands on a copy; the weights are rebuilt from the
\* zipped pairs; a missing input is read as 1.0; the error is computed anew
\* after each weight's change.
UpdateWeightsOnCopy(w, lr, inputs, error) == w
UpdateWeightsResized(w, lr, inputs, error) ==
    [i \in 1..Min(Len(w), Len(inputs)) |-> w[i] + Mul(Mul(lr, error), inputs[i])]
UpdateWeightsPadded(w, lr, inputs, error) ==
    [i \in 1..Len(w) |->
        w[i] + Mul(Mul(lr, error), IF i <= Len(inputs) THEN inputs[i] ELSE Scale)]
RECURSIVE Recomputed(_, _, _, _, _)
Recomputed(w, lr, inputs, error, k) ==
    IF k = 0
    THEN w
    ELSE LET prev == Recomputed(w, lr, inputs, error, k - 1)
             m == Min(Len(inputs), Len(w))
             err == error - (ZipDot(inputs, prev, m) - ZipDot(inputs, w, m))
         IN  [i \in 1..Len(w) |->
                 IF i = k THEN prev[i] + Mul(Mul(lr, err), inputs[i]) ELSE prev[i]]
UpdateWeightsRecomputed(w, lr, inputs, error) ==
    Recomputed(w, lr, inputs, error, Min(Len(inputs), Len(w)))
UpdateWeights(w, lr, inputs, error) ==
    [i \in 1..Len(w) |->
        IF i <= Len(inputs) THEN w[i] + Mul(Mul(lr, error), inputs[i]) ELSE w[i]]

\* input.last() and &input[..input.len() - 1] of a non-empty sample.
Target(input) == input[Len(input)]
Features(input) == SubSeq(input, 1, Len(input) - 1)

\* shuffled_inputs.shuffle(&mut rng): every ordering of the copy.
\* Variant: each position drawn from the collection anew.
ShuffledWithReplacement(s) ==
    {[i \in 1..Len(s) |-> s[p[i]]] : p \in [1..Len(s) -> 1..Len(s)]}
Shuffled(s) ==
    {[i \in 1..Len(s) |-> s[p[i]]] :
        p \in {q \in [1..Len(s) -> 1..Len(s)] :
                 \A i, j \in 1..Len(s) : q[i] = q[j] => i = j}}

\* inputs.to_vec(): the shuffle works on a copy, the caller's collection stays.
\* Variant: the caller's collection is the one shuffled.
ShuffledInPlace(s, p) == p
CallerAfterShuffle(s, p) == s

----------------------------------------------------------------------------
(* The calls.                                                              *)

\* pub fn train, entry: `inputs` is borrowed, the loop over 0..epochs begins.
TrainCall(inputs, n) ==
    /\ pc = "idle"
    /\ pc' = "train"
    /\ samples' = inputs
    /\ samples0' = inputs
    /\ epochs' = n
    /\ epoch' = 0
    /\ iter' = <<>>
    /\ w0' = weights
    /\ updates' = 0
    /\ visited' = EmptyBag
    /\ work' = work + n * Len(inputs)
    /\ UNCHANGED <<input_size, weights, learning_rate, activation_fn, accuracy, test_inputs,
                   test_outputs>>

\* One iteration of `for _ in 0..epochs` begins: copy, shuffle, start the
\* inner loop.
Shuffle ==
    /\ pc = "train"
    /\ iter = <<>>
    /\ epoch < epochs
    /\ \E p \in Shuffled(samples) :
          /\ iter' = p
          /\ samples' = CallerAfterShuffle(samples, p)
    /\ epoch' = epoch + 1
    /\ visited' = EmptyBag
    /\ UNCHANGED <<input_size, weights, learning_rate, activation_fn, pc, epochs, accuracy,
                   test_inputs, test_outputs, samples0, w0, updates, work>>

\* The body of the inner loop on a sample that has a last element.
TrainStep ==
    /\ pc = "train"
    /\ iter # <<>>
    /\ Len(Head(iter)) > 0
    /\ LET input == Head(iter)
           target == Target(input)
           features == Features(input)
           prediction == Feedforward(weights, activation_fn, features)
           error == target - prediction
       IN  weights' = UpdateWeights(weights, learning_rate, features, error)
    /\ iter' = Tail(iter)
    /\ updates' = updates + 1
    /\ visited' = visited (+) SetToBag({Head(iter)})
    /\ UNCHANGED <<input_size, learning_rate, activation_fn, pc, samples, epochs, epoch,
                   accuracy, test_inputs, test_outputs, samples0, w0, work>>

\* The body of the inner loop on an empty sample: input.last() is None and
\* expect("No target value provided") panics.
\* Variants: the sample is skipped; the panic undoes the call's updates.
TrainPanicSkips ==
    /\ pc = "train"
    /\ iter # <<>>
    /\ Len(Head(iter)) = 0
    /\ iter' = Tail(iter)
    /\ UNCHANGED <<input_size, weights, learning_rate, activation_fn, pc, samples,
                   epochs, epoch, accuracy, test_inputs, test_outputs, samples0, w0,
                   updates, visited, work>>
TrainPanicRollsBack ==
    /\ pc = "train"
    /\ iter # <<>>
    /\ Len(Head(iter)) = 0
    /\ pc' = "panicked"
    /\ weights' = w0
    /\ UNCHANGED <<input_size, learning_rate, activation_fn, samples, epochs, epoch,
                   iter, accuracy, test_inputs, test_outputs, samples0, w0, updates,
                   visited, work>>
TrainPanic ==
    /\ pc = "train"
    /\ iter # <<>>
    /\ Len(Head(iter)) = 0
    /\ pc' = "panicked"
    /\ UNCHANGED <<input_size, weights, learning_rate, activation_fn, samples, epochs, epoch, iter,
                   accuracy, test_inputs, test_outputs, samples0, w0, updates,
                   visited, work>>

\* The outer loop is exhausted: train returns.
TrainReturn ==
    /\ pc = "train"
    /\ iter = <<>>
    /\ epoch = epochs
    /\ pc' = "returned"
    /\ UNCHANGED <<input_size, weights, learning_rate, activation_fn, samples, epochs, epoch, iter,
                   accuracy, test_inputs, test_outputs, samples0, w0, updates,
                   visited, work>>

\* The pairs inputs.iter().zip(outputs) visits.
Zipped(inputs, outputs) == 1..Min(Len(inputs), Len(outputs))

\* test's correct_predictions when no visited sample is empty.
CorrectPredictions(w, fn, inputs, outputs) ==
    Cardinality({i \in Zipped(inputs, outputs) :
        Abs(Feedforward(w, fn, Features(inputs[i])) - outputs[i]) < Tolerance})

\* test's return value.  Variant: the division is made on the integers.
TestResultIntegerDivision(w, fn, inputs, outputs) ==
    IF Len(inputs) = 0
    THEN AsF64Div(0, 0)
    ELSE Num((CorrectPredictions(w, fn, inputs, outputs) \div Len(inputs)) * Scale)
TestResult(w, fn, inputs, outputs) ==
    AsF64Div(CorrectPredictions(w, fn, inputs, outputs), Len(inputs))

\* pub fn test.  On an empty sample input.len() - 1 underflows: the
\* subtraction panics, or, with overflow checks off, the slice
\* &input[..usize::MAX] does.
Test(inputs, outputs) ==
    /\ pc = "idle"
    /\ test_inputs' = inputs
    /\ test_outputs' = outputs
    /\ IF \E i \in Zipped(inputs, outputs) : Len(inputs[i]) = 0
       THEN /\ pc' = "panicked"
            /\ accuracy' = NoResult
       ELSE /\ pc' = "tested"
            /\ accuracy' = TestResult(weights, activation_fn, inputs, outputs)
    /\ UNCHANGED <<input_size, weights, learning_rate, activation_fn, samples, epochs, epoch, iter,
                   samples0, w0, updates, visited, work>>

\* The caller goes on after a call has returned: the arguments and the
\* result of that call are gone, the perceptron stays.
Resume ==
    /\ pc \in {"returned", "tested"}
    /\ pc' = "idle"
    /\ samples' = <<>>
    /\ samples0' = <<>>
    /\ epochs' = 0
    /\ epoch' = 0
    /\ iter' = <<>>
    /\ accuracy' = NoResult
    /\ test_inputs' = <<>>
    /\ test_outputs' = <<>>
    /\ w0' = weights
    /\ updates' = 0
    /\ visited' = EmptyBag
    /\ UNCHANGED <<input_size, weights, learning_rate, activation_fn, work>>

----------------------------------------------------------------------------
(* Any perceptron, any calls.                                              *)

\* The samples handed to train and test: no element, one feature, two
\* features.
SamplePool == {<<>>, <<Scale, 2 * Scale>>, <<2 * Scale, -Scale, Scale>>}
Collections == UNION {[1..n -> SamplePool] : n \in 0..MaxSamples}
OutputPool == {0}

Constructed(n, p) ==
    /\ input_size = n
    /\ weights = p.weights
    /\ learning_rate = p.learning_rate
    /\ activation_fn = p.activation_fn
    /\ pc = "idle"
    /\ samples = <<>>
    /\ epochs = 0
    /\ epoch = 0
    /\ iter = <<>>
    /\ accuracy = NoResult
    /\ test_inputs = <<>>
    /\ test_outputs = <<>>
    /\ samples0 = <<>>
    /\ w0 = p.weights
    /\ updates = 0
    /\ visited = EmptyBag
    /\ work = 0

Init == \E n \in 0..MaxInputSize : \E p \in New(n, Tenth, "None") : Constructed(n, p)

Train ==
    \E inputs \in Collections, n \in 0..MaxWork :
        /\ work + n * Len(inputs) <= MaxWork
        /\ TrainCall(inputs, n)

TestCall ==
    \E inputs \in Collections :
        \E outputs \in [1..Len(inputs) -> OutputPool] : Test(inputs, outputs)

Next ==
    \/ Train
    \/ Shuffle
    \/ TrainStep
    \/ TrainPanic
    \/ TrainReturn
    \/ TestCall
    \/ Resume

Spec == Init /\ [][Next]_vars

----------------------------------------------------------------------------
(* tests::test_perceptron: new(1, 0.1, None), train on f(x) = 2x for 100   *)
(* epochs, test.                                                           *)

TrainingData ==
    << <<0, 0>>, <<Scale, 2 * Scale>>, <<2 * Scale, 4 * Scale>>,
       <<3 * Scale, 6 * Scale>>, <<8 * Scale, 16 * Scale>> >>
TestingData ==
    << <<0, 0>>, <<Scale, 2 * Scale>>, <<2 * Scale, 4 * Scale>>,
       <<3 * Scale, 6 * Scale>>, <<4 * Scale, 8 * Scale>> >>
ExpectedOutputs == <<0, 2 * Scale, 4 * Scale, 6 * Scale, 8 * Scale>>
TrainingEpochs == 100

ScenarioInit == \E p \in New(1, Tenth, "None") : Constructed(1, p)

ScenarioTrain ==
    /\ work = 0
    /\ TrainCall(TrainingData, TrainingEpochs)

ScenarioTest ==
    /\ work > 0
    /\ Test(TestingData, ExpectedOutputs)

ScenarioResume ==
    /\ pc = "returned"
    /\ Resume

ScenarioNext ==
    \/ ScenarioTrain
    \/ Shuffle
    \/ TrainStep
    \/ TrainReturn
    \/ ScenarioResume
    \/ ScenarioTest

ScenarioSpec == ScenarioInit /\ [][ScenarioNext]_vars

----------------------------------------------------------------------------
(* Properties.                                                             *)

\* The bag of the elements of a sequence.
RECURSIVE BagOfSeq(_)
BagOfSeq(s) == IF s = <<>> THEN EmptyBag ELSE SetToBag({Head(s)}) (+) BagOfSeq(Tail(s))

\* train is about to run the loop body on a sample with its features.
AtSample == pc = "train" /\ iter # <<>> /\ Head(iter) # <<>>
\* train is about to run the loop body on an empty sample.
AtEmptySample == pc = "train" /\ iter # <<>> /\ Head(iter) = <<>>
\* A train call panicked (test panics outside the loop, with iter empty).
TrainPanicked == pc = "panicked" /\ iter # <<>>

\* The i-th prediction of the test call that has returned is within the
\* tolerance of the i-th expected output.
Within(i) ==
    Abs(Feedforward(weights, activation_fn, Features(test_inputs[i])) - test_outputs[i])
        < Tolerance

\* C1: in the repository's scenario (new(1, 0.1, None), 100 epochs on the
\* f(x) = 2x samples, whatever the initial weight and the shuffles), test
\* returns exactly 1.0.
C1_LinearLearnability == pc = "tested" => accuracy = Num(Scale)
C1_Witness ==
    /\ pc = "tested"
    /\ work = TrainingEpochs * Len(TrainingData)
    /\ test_inputs = TestingData
    /\ accuracy.kind = "num"

\* C2: the weight vector has input_size entries after new and after every
\* step of every train and test call, whatever the samples' lengths.
C2_Dimensionality == Len(weights) = input_size /\ DOMAIN weights = 1..input_size
C2_Witness ==
    /\ pc = "returned"
    /\ updates >= 2
    /\ weights # w0
    /\ \E s \in BagToSet(visited) : Len(s) - 1 > input_size

\* C3 as stated: for every sequence of samples, the empty one included,
\* test returns a number in [0, 1], 1.0 iff every prediction is within the
\* tolerance and 0.0 iff none is.
C3_Original ==
    pc = "tested" =>
        /\ accuracy.kind = "num"
        /\ 0 <= accuracy.val /\ accuracy.val <= Scale
        /\ accuracy.val = Scale <=> \A i \in 1..Len(test_inputs) : Within(i)
        /\ accuracy.val = 0 <=> \A i \in 1..Len(test_inputs) : ~Within(i)
\* C3 as amended: the same, for every sequence of samples that is not empty
\* (test on no sample returns NaN).
C3_AccuracyBounds ==
    (pc = "tested" /\ test_inputs # <<>>) =>
        /\ accuracy.kind = "num"
        /\ 0 <= accuracy.val /\ accuracy.val <= Scale
        /\ accuracy.val = Scale <=> \A i \in 1..Len(test_inputs) : Within(i)
        /\ accuracy.val = 0 <=> \A i \in 1..Len(test_inputs) : ~Within(i)
C3_Witness ==
    /\ pc = "tested"
    /\ Len(test_inputs) = Len(test_outputs)
    /\ accuracy.kind = "num"
    /\ 0 < accuracy.val /\ accuracy.val < Scale
    /\ \E i \in 1..Len(test_inputs) : Target(test_inputs[i]) # test_outputs[i]

\* C4: when the loop of train reaches an empty sample, the next step is the
\* panic, at that sample: the sample is not skipped and no weight changes.
C4_EmptySampleIsFatal ==
    [][AtEmptySample =>
         /\ pc' = "panicked"
         /\ iter' = iter
         /\ weights' = weights
         /\ updates' = updates]_vars
C4_Witness == TrainPanicked /\ Head(iter) = <<>> /\ epochs >= 1 /\ updates >= 1

\* C5 as stated: when train has panicked on an empty sample, the weights
\* equal their value before the call.
C5_Original == TrainPanicked => weights = w0
\* C5 as amended: train ends either by returning after epochs passes, with
\* one update per sample and pass, or by panicking at an empty sample; the
\* panic changes no weight, so the updates of the samples processed before
\* it in that call, one each, stay in the weights.
C5_AbortKeepsUpdates ==
    [][(pc = "train" /\ pc' # "train") =>
         /\ weights' = weights
         /\ updates' = updates
         /\ \/ /\ pc' = "returned"
               /\ epoch = epochs
               /\ updates = epochs * Len(samples)
            \/ /\ pc' = "panicked"
               /\ AtEmptySample
               /\ updates = (epoch - 1) * Len(samples) + (Len(samples) - Len(iter))]_vars
C5_Witness == TrainPanicked /\ updates >= 1 /\ weights # w0

\* C6 as stated: no sample whose number of features differs from
\* len(weights) is ever processed to the end, by train (it gets no weight
\* update) or by test (test does not return).
C6_Original ==
    /\ \A s \in BagToSet(visited) : Len(s) - 1 = Len(weights)
    /\ pc = "tested" => \A i \in 1..Len(test_inputs) : Len(test_inputs[i]) - 1 = Len(weights)
\* C6 as amended: on a non-empty sample whose number of features differs
\* from len(weights) nothing fails; train predicts and updates over the
\* first min(features, weights) positions, the weights beyond them stay as
\* they are and the features beyond them are not read, and test returns.
C6_MismatchIsTruncated ==
    [][/\ (AtSample /\ Len(Head(iter)) - 1 # Len(weights)) =>
            LET f == Features(Head(iter))
                m == Min(Len(f), Len(weights))
                error == Target(Head(iter)) - ZipDot(f, weights, m)
            IN  /\ pc' = "train"
                /\ Len(weights') = Len(weights)
                /\ \A i \in 1..Len(weights) :
                      weights'[i] = IF i <= m
                                    THEN weights[i] + Mul(Mul(learning_rate, error), f[i])
                                    ELSE weights[i]
       /\ (pc = "idle" /\ pc' \in {"tested", "panicked"}) =>
            LET n == Len(test_inputs')
                f(i) == Features(test_inputs'[i])
                prediction(i) ==
                    Activate(activation_fn, ZipDot(f(i), weights, Min(Len(f(i)), Len(weights))))
                correct == {i \in 1..n : Abs(prediction(i) - test_outputs'[i]) < Tolerance}
            IN  /\ pc' = "panicked" <=> \E i \in 1..n : test_inputs'[i] = <<>>
                /\ (pc' = "tested" /\ n > 0) =>
                      accuracy' = Num((Cardinality(correct) * Scale + (n \div 2)) \div n)]_vars
C6_Witness ==
    /\ pc = "returned"
    /\ weights # w0
    /\ \E s \in BagToSet(visited) : Len(s) - 1 < Len(weights)

\* C7: the caller's collection holds the same samples in the same order
\* during and after train as when it was handed to train.
C7_CallerSamplesUnchanged == samples = samples0
C7_Witness ==
    /\ pc = "returned"
    /\ epochs >= 1
    /\ Len(samples) >= 2
    /\ samples[1] # samples[2]
    /\ updates = epochs * Len(samples)

\* C8: train returns after exactly epochs passes and epochs * len(samples)
\* updates; within a pass the samples updated on and the samples still to
\* visit make up the collection, each sample once; with epochs = 0 there is
\* no update and the weights are those before the call.
C8_EpochCount ==
    /\ pc = "train" => epoch <= epochs
    /\ (pc = "train" /\ epoch >= 1) => visited (+) BagOfSeq(iter) = BagOfSeq(samples)
    /\ pc = "returned" =>
          /\ epoch = epochs
          /\ updates = epochs * Len(samples)
          /\ epochs >= 1 => visited = BagOfSeq(samples)
          /\ epochs = 0 => (updates = 0 /\ weights = w0)
C8_Witness ==
    /\ pc = "returned"
    /\ epochs >= 2
    /\ Len(samples) >= 2
    /\ updates = epochs * Len(samples)
    /\ weights # w0

\* C9 as stated: every weight new draws is strictly between -1.0 and 1.0.
C9_Original ==
    work = 0 => \A i \in 1..Len(weights) : -Scale < weights[i] /\ weights[i] < Scale
\* C9 as amended: every weight new draws is in [-1.0, 1.0): -1.0 can be
\* drawn, 1.0 cannot.
C9_InitialWeightRange ==
    work = 0 => \A i \in 1..Len(weights) : -Scale <= weights[i] /\ weights[i] < Scale
C9_Witness ==
    /\ pc = "idle"
    /\ work = 0
    /\ \E i \in 1..Len(weights) : weights[i] = -Scale
    /\ \E i \in 1..Len(weights) : weights[i] = Scale - 1

\* C10: one step of the loop of train on a sample with len(weights)
\* features: the prediction is made from the weights as the preceding step
\* left them, error = target - prediction is computed once, and every
\* weight[i] becomes weight[i] + learning_rate * error * features[i]; the
\* step consumes that one sample.
C10_OnlineDeltaRule ==
    [][(AtSample /\ Len(Head(iter)) - 1 = Len(weights)) =>
         LET f == Features(Head(iter))
             prediction == Activate(activation_fn, ZipDot(f, weights, Len(weights)))
             error == Target(Head(iter)) - prediction
         IN  /\ \A i \in 1..Len(weights) :
                   weights'[i] = weights[i] + Mul(Mul(learning_rate, error), f[i])
             /\ iter' = Tail(iter)
             /\ updates' = updates + 1
             /\ pc' = "train"]_vars
C10_Witness ==
    /\ pc = "train"
    /\ updates >= 2
    /\ Len(weights) >= 2
    /\ weights # w0
    /\ \E s \in BagToSet(visited) : Len(s) - 1 = Len(weights)

====
